---- MODULE Spec2Model ----
(***************************************************************************)
(* Game Dev Vizier (src/main.py): a Flask application with four JSON       *)
(* routes in front of one blocking call to an external completion client.  *)
(*                                                                         *)
(* Python values are records tagged by their type in field t.  A request   *)
(* is handled by one thread; the thread can be preempted wherever the      *)
(* handler blocks or calls out, so a handler is a short chain of steps     *)
(* (pc) and any number of requests interleave.                             *)
(***************************************************************************)
EXTENDS Integers, Sequences, FiniteSets, TLC

VARIABLES
    environ,        \* os.environ: the three credential variables
    legacy_json,    \* installed Flask predates 2.1 (request.json is lenient)
    client,         \* the module-level client handle (lines 25-39)
    clock,          \* minutes elapsed on the wall clock
    reqs            \* per request: position and locals of its handler

vars == <<environ, legacy_json, client, clock, reqs>>

(***************************************************************************)
(* Bounds of the model.                                                    *)
(***************************************************************************)
MaxTicks == 1            \* the wall clock advances at most this many minutes
BaseMinute == 719        \* minute of the day at which the run starts (11:59)
Requests == {"r1", "r2"} \* requests that may be in flight together

(***************************************************************************)
(* Python values.                                                          *)
(***************************************************************************)
None == [t |-> "null"]
PyStr(s) == [t |-> "str", s |-> s]
PyNum(n) == [t |-> "num", n |-> n]
PyBool(b) == [t |-> "bool", b |-> b]
PyList(items) == [t |-> "list", items |-> items]
PyDict(members) == [t |-> "object", members |-> members]

\* bool(x) / truth value testing for the value types that occur
Truthy(v) ==
    CASE v.t = "null" -> FALSE
      [] v.t = "str" -> v.s # ""
      [] v.t = "num" -> v.n # 0
      [] v.t = "bool" -> v.b
      [] v.t = "list" -> v.items # <<>>
      [] v.t = "object" -> DOMAIN v.members # {}
      [] OTHER -> TRUE

\* a or b
PyOr(a, b) == IF Truthy(a) THEN a ELSE b

\* outcome of an expression that may raise
Ok(v) == [raised |-> FALSE, value |-> v]
Raise(e) == [raised |-> TRUE, exc |-> e]
Exc(cls, msg) == [cls |-> cls, msg |-> msg]

\* the classes in the method resolution order of an exception class:
\* UnicodeEncodeError, UnicodeDecodeError and json.JSONDecodeError derive from
\* ValueError; werkzeug's HTTP exceptions and openai's errors derive from
\* Exception only
Bases(cls) ==
    CASE cls = "ValueError" -> {"ValueError", "Exception", "BaseException"}
      [] cls \in {"UnicodeEncodeError", "UnicodeDecodeError"} ->
            {cls, "UnicodeError", "ValueError", "Exception", "BaseException"}
      [] cls = "UnicodeError" ->
            {"UnicodeError", "ValueError", "Exception", "BaseException"}
      [] cls = "JSONDecodeError" ->
            {"JSONDecodeError", "ValueError", "Exception", "BaseException"}
      [] cls = "TypeError" -> {"TypeError", "Exception", "BaseException"}
      [] cls \in {"BadRequest", "UnsupportedMediaType"} ->
            {cls, "HTTPException", "Exception", "BaseException"}
      [] cls = "APIConnectionError" ->
            {"APIConnectionError", "APIError", "OpenAIError", "Exception", "BaseException"}
      [] OTHER -> {cls, "Exception", "BaseException"}

isinstance(e, cls) == cls \in Bases(e.cls)

(***************************************************************************)
(* Startup, lines 25-39: credential resolution and the client handle.      *)
(***************************************************************************)
EnvNames == {"OPENAI_KEY", "OPENAI_API_KEY", "OPENAI_TOKEN"}
EnvValues == {None, PyStr("sk-test")}

\* os.environ.get(name): None when the variable is unset
environ_get(env, name) == env[name]

\* lines 27-29
api_key(env) ==
    PyOr(PyOr(environ_get(env, "OPENAI_KEY"), environ_get(env, "OPENAI_API_KEY")),
         environ_get(env, "OPENAI_TOKEN"))

\* lines 25-39: the try block raises ValueError when no key is found (line
\* 32) and may raise in the constructor OpenAI(api_key=...) of line 34; the
\* except clause of lines 37-39 turns either into client = None
init_client(env, constructor_raises) ==
    IF ~Truthy(api_key(env)) THEN None
    ELSE IF constructor_raises THEN None
    ELSE [t |-> "OpenAI", api_key |-> api_key(env)]

(***************************************************************************)
(* Time: datetime.now() and its two renderings.                            *)
(***************************************************************************)
Digits2(n) == <<n \div 10, n % 10>>

\* minute of the day
datetime_now == (BaseMinute + clock) % 1440

\* strftime("%B %d, %Y at %I:%M %p") on the day of the run: %I is the
\* 12-hour clock (01..12), %M the minute, %p AM or PM
strftime(t) ==
    LET h == t \div 60
        h12 == ((h + 11) % 12) + 1
    IN [date |-> "October 29, 2026", at |-> "at", I |-> Digits2(h12),
        M |-> Digits2(t % 60), p |-> IF h < 12 THEN "AM" ELSE "PM"]

\* isoformat(): 24-hour clock
isoformat(t) == [date |-> "2026-10-29", H |-> Digits2(t \div 60), M |-> Digits2(t % 60)]

(***************************************************************************)
(* analyze_game, lines 41-65.                                              *)
(***************************************************************************)
DegradedMessage ==
    "OpenAI client is not initialized. Please check your API key and environment variables."

SystemContent ==
    "You are a top-tier game dev consultant and royal vizier who delivers precise, actionable insights with perfect spelling and grammar."

\* lines 46-53: the f-string with its one interpolation point
prompt(business_data) ==
    <<"You are an expert video game designer and royal vizier. ... Game Summary:",
      business_data,
      "IMPORTANT: Use professional consulting language ...">>

\* lines 55-63: the arguments of client.chat.completions.create
completion_request(business_data) ==
    [model |-> "gpt-4",
     messages |-> <<[role |-> "system", content |-> SystemContent],
                    [role |-> "user", content |-> prompt(business_data)]>>,
     temperature |-> "0.85",
     max_tokens |-> 2000]

\* lines 43-63: the outbound calls analyze_game makes: none when the client
\* handle is None (line 43-44), one otherwise
analyze_game_calls(c, business_data) ==
    IF c = None THEN <<>>
    ELSE <<completion_request(business_data)>>

(***************************************************************************)
(* process_game_analysis, lines 67-92.                                     *)
(***************************************************************************)
required_fields == <<"business_name", "game_data">>

\* field not in data
py_not_in(field, data) ==
    CASE data.t = "object" -> Ok(field \notin DOMAIN data.members)
      [] data.t = "list" ->
            Ok(\A i \in 1..Len(data.items) : data.items[i] # PyStr(field))
      [] data.t = "num" -> Raise(Exc("TypeError", "argument of type 'int' is not iterable"))
      [] data.t = "bool" -> Raise(Exc("TypeError", "argument of type 'bool' is not iterable"))

\* data[field]
py_getitem(data, field) ==
    CASE data.t = "object" -> Ok(data.members[field])
      [] data.t = "list" ->
            Raise(Exc("TypeError", "list indices must be integers or slices, not str"))

\* line 72: field not in data or data[field] is None
field_missing(field, data) ==
    LET absent == py_not_in(field, data) IN
    IF absent.raised THEN absent
    ELSE IF absent.value THEN Ok(TRUE)
    ELSE LET item == py_getitem(data, field) IN
         IF item.raised THEN item ELSE Ok(item.value = None)

\* lines 70-73: the loop over required_fields, from index i on
RECURSIVE validate_from(_, _)
validate_from(data, i) ==
    IF i > Len(required_fields) THEN Ok(None)
    ELSE LET field == required_fields[i]
             missing == field_missing(field, data)
         IN IF missing.raised THEN missing
            ELSE IF missing.value
                 THEN Raise(Exc("ValueError", "Missing required field: " \o field))
                 ELSE validate_from(data, i + 1)

validate(data) == validate_from(data, 1)

\* a slice one character short
report_id_short(u) == SubSeq(u, 1, 7)

\* line 83: str(uuid.uuid4())[:8]
report_id_of(u) == SubSeq(u, 1, 8)

\* a response stamped with the time the request arrived
success_response_stale(rq, now) ==
    [success |-> TRUE,
     message |-> "Game analysis completed successfully!",
     report_id |-> rq.report_id,
     business_name |-> rq.data.members["business_name"],
     analysis |-> rq.analysis,
     generated_at |-> strftime(rq.arrived_at)]

\* lines 85-92: the dict returned, from the locals rq of the handler
success_response(rq, now) ==
    [success |-> TRUE,
     message |-> "Game analysis completed successfully!",
     report_id |-> rq.report_id,
     business_name |-> rq.data.members["business_name"],
     analysis |-> rq.analysis,
     generated_at |-> strftime(now)]

(***************************************************************************)
(* Requests.                                                               *)
(***************************************************************************)
\* a request body: bytes that json.loads rejects, or an encoded document
Undecodable(b) == [bytes |-> b]
Json(v) == [json |-> v]

Absent == [t |-> "absent"]  \* marks a key left out of a request object

\* the JSON object with the two keys, each present unless Absent
MakeDict(bn, gd) ==
    PyDict([k \in ({"business_name", "game_data"}
                    \ ((IF bn = Absent THEN {"business_name"} ELSE {})
                       \cup (IF gd = Absent THEN {"game_data"} ELSE {})))
            |-> IF k = "business_name" THEN bn ELSE gd])

NameValues == {Absent, None, PyStr(""), PyStr("Space Tactics"), PyStr("<U+D800>")}
GameValues == {Absent, None, PyStr(""),
               PyStr("A turn-based tactics game set on a derelict space station.")}

Objects == {MakeDict(bn, gd) : bn \in NameValues, gd \in GameValues}

Documents ==
    Objects \cup {None, PyNum(5), PyBool(TRUE), PyList(<<>>),
                  PyList(<<PyStr("business_name"), PyStr("game_data")>>)}

Bodies == {Undecodable(""), Undecodable("{bad json")} \cup {Json(d) : d \in Documents}

Request(route, ct, body) == [route |-> route, content_type |-> ct, body |-> body]

AnalyzeRequests ==
    {Request("/api/analyze-game", "application/json", b) : b \in Bodies}
    \cup {Request("/api/analyze-game", "", Undecodable("")),
          Request("/api/analyze-game", "text/plain",
                  Json(MakeDict(PyStr("Space Tactics"), PyStr(""))))}

TestRequests ==
    {Request("/api/test", "", Undecodable("")),
     Request("/api/test", "application/json", Json(MakeDict(Absent, None)))}

\* what the completion client may answer
Replies == {PyStr("## Strong Point ... Your humble vizier"), PyStr("## Counsel")}
UpstreamErrors ==
    {Exc("APIConnectionError", "Connection error."),
     Exc("UnicodeEncodeError", "'ascii' codec can't encode character")}

\* str(uuid.uuid4()): 36 characters, 8-4-4-4-12
Uuids ==
    {<<"3","f","a","8","5","f","6","4","-","5","7","1","7","-","4","5","6","2","-",
       "b","3","f","c","-","2","c","9","6","3","f","6","6","a","f","a","6">>,
     <<"0","b","1","d","9","e","7","c","-","a","a","2","0","-","4","c","1","e","-",
       "9","d","4","4","-","7","e","5","5","1","0","c","3","b","a","8","8">>}

NoRequest == Request("", "", Undecodable(""))
NoResponse == [status |-> 0, body |-> [pending |-> TRUE]]

\* the handler of one request before it starts
Idle ==
    [pc |-> "idle", request |-> NoRequest, arrived_at |-> 0, data |-> None,
     analysis |-> None, report_id |-> <<>>, calls |-> <<>>, exc |-> None,
     response |-> NoResponse]

(***************************************************************************)
(* Flask: request.json and jsonify.                                        *)
(***************************************************************************)
is_json(ct) == ct = "application/json"

\* request.json (line 117).  Flask 2.1 and later raise when the content
\* type is not JSON; earlier versions return None.  A body that does not
\* decode raises BadRequest in every version.
get_json(rq, legacy) ==
    IF ~is_json(rq.content_type)
    THEN IF legacy THEN Ok(None)
         ELSE Raise(Exc("UnsupportedMediaType",
                "415 Unsupported Media Type: Did not attempt to load JSON data because the request Content-Type was not 'application/json'."))
    ELSE IF "bytes" \in DOMAIN rq.body
         THEN Raise(Exc("BadRequest",
                "400 Bad Request: The browser (or proxy) sent a request that this server could not understand."))
         ELSE Ok(rq.body.json)

\* jsonify(body), status
Response(status, body) == [status |-> status, body |-> body]

\* lines 126-130 and 158-162: the except clauses of the two POST handlers
error_response(e) ==
    IF isinstance(e, "ValueError")
    THEN Response(400, [error |-> e.msg])
    ELSE Response(500, [error |-> e.msg])

\* the handler returns
Finish(rq, response) == [rq EXCEPT !.pc = "done", !.response = response]

\* the handler catches e as its local and returns the error response
Caught(rq, e) == Finish([rq EXCEPT !.exc = e], error_response(e))

\* texts that hold a lone surrogate: "<U+D800>" stands for the one-character
\* string '\ud800', which json.loads accepts and UTF-8 cannot encode
Unencodable == {"<U+D800>"}

\* line 79: print(f"Generating analysis for {business_name}...") on a UTF-8
\* standard output; the name starts at position 24 of the line
print_generating(business_name) ==
    IF business_name.t = "str" /\ business_name.s \in Unencodable
    THEN Raise(Exc("UnicodeEncodeError",
           "'utf-8' codec can't encode character '\\ud800' in position 24: surrogates not allowed"))
    ELSE Ok(None)

\* lines 67-80: process_game_analysis up to the point where analyze_game
\* either returns the degraded message or blocks in the completion call
process_game_analysis(rq, data, c) ==
    LET v == validate(data) IN
    IF v.raised THEN Caught(rq, v.exc)
    ELSE LET printed == print_generating(data.members["business_name"]) IN
         IF printed.raised THEN Caught(rq, printed.exc)
         ELSE LET calls == analyze_game_calls(c, data.members["game_data"]) IN
              IF Len(calls) = 0
              THEN [rq EXCEPT !.pc = "analysed", !.data = data,
                              !.analysis = PyStr(DegradedMessage)]
              ELSE [rq EXCEPT !.pc = "calling", !.data = data, !.calls = calls]

\* lines 116-130, up to the same point
api_analyze_game(rq, legacy, c) ==
    LET data == get_json(rq.request, legacy) IN
    IF data.raised THEN Caught(rq, data.exc)
    ELSE IF data.value = None
         THEN Finish(rq, Response(400, [error |-> "No JSON data provided"]))
         ELSE process_game_analysis(rq, data.value, c)

\* lines 149-151
SampleDescription ==
    "A visual novel about a detective who solves mysteries about a team of thieves using his unique psychic abilities. ..."

\* lines 147-152
sample_data ==
    PyDict([k \in {"business_name", "game_data"} |->
            IF k = "business_name" THEN PyStr("Sample Game Idea")
            ELSE PyStr(SampleDescription)])

\* lines 145-162, up to the same point
test_endpoint(rq, c) == process_game_analysis(rq, sample_data, c)

\* lines 95-111
home(env, c) ==
    LET openai_key == PyOr(environ_get(env, "OPENAI_KEY"),
                           environ_get(env, "OPENAI_API_KEY"))
    IN Response(200,
         [message |-> "Game Dev Vizier API is running!",
          status |-> "healthy",
          endpoints |-> [health |-> "/api/health",
                         analyze |-> "/api/analyze-game (POST)",
                         test |-> "/api/test (POST)"],
          environment_check |-> [openai_key_set |-> Truthy(openai_key),
                                 client_ready |-> Truthy(c)]])

\* lines 133-142
health_check(c, now) ==
    Response(200,
      [status |-> "healthy",
       timestamp |-> isoformat(now),
       service |-> "Game Dev Vizier",
       environment |-> [openai_configured |-> Truthy(c)]])

(***************************************************************************)
(* The state machine.                                                      *)
(***************************************************************************)
Init ==
    /\ environ \in [EnvNames -> EnvValues]
    /\ legacy_json \in BOOLEAN
    /\ \E constructor_raises \in BOOLEAN :
          client = init_client(environ, constructor_raises)
    /\ clock = 0
    /\ reqs = [r \in Requests |-> Idle]

Arrive(r, request) == [reqs[r] EXCEPT !.request = request, !.arrived_at = datetime_now]

\* GET /
Home(r) ==
    /\ reqs[r].pc = "idle"
    /\ reqs' = [reqs EXCEPT ![r] = Finish(Arrive(r, Request("/", "", Undecodable(""))),
                                          home(environ, client))]
    /\ UNCHANGED <<environ, legacy_json, client, clock>>

\* GET /api/health
HealthCheck(r) ==
    /\ reqs[r].pc = "idle"
    /\ reqs' = [reqs EXCEPT ![r] =
                  Finish(Arrive(r, Request("/api/health", "", Undecodable(""))),
                         health_check(client, datetime_now))]
    /\ UNCHANGED <<environ, legacy_json, client, clock>>

\* POST /api/analyze-game, until the handler returns or blocks
ApiAnalyzeGame(r) ==
    /\ reqs[r].pc = "idle"
    /\ \E request \in AnalyzeRequests :
         reqs' = [reqs EXCEPT ![r] =
                    api_analyze_game(Arrive(r, request), legacy_json, client)]
    /\ UNCHANGED <<environ, legacy_json, client, clock>>

\* POST /api/test, until the handler returns or blocks
TestEndpoint(r) ==
    /\ reqs[r].pc = "idle"
    /\ \E request \in TestRequests :
         reqs' = [reqs EXCEPT ![r] = test_endpoint(Arrive(r, request), client)]
    /\ UNCHANGED <<environ, legacy_json, client, clock>>

\* line 65: the completion call returns its text
CompletionReturns(r) ==
    /\ reqs[r].pc = "calling"
    /\ \E content \in Replies :
         reqs' = [reqs EXCEPT ![r].pc = "analysed", ![r].analysis = content]
    /\ UNCHANGED <<environ, legacy_json, client, clock>>

\* lines 55-63 raise: the exception leaves process_game_analysis and reaches
\* the except clauses of the route handler
CompletionRaises(r) ==
    /\ reqs[r].pc = "calling"
    /\ \E e \in UpstreamErrors :
         reqs' = [reqs EXCEPT ![r] = Caught(reqs[r], e)]
    /\ UNCHANGED <<environ, legacy_json, client, clock>>

\* line 83
GenerateReportId(r) ==
    /\ reqs[r].pc = "analysed"
    /\ \E u \in Uuids :
         reqs' = [reqs EXCEPT ![r].pc = "identified", ![r].report_id = report_id_of(u)]
    /\ UNCHANGED <<environ, legacy_json, client, clock>>

\* lines 85-92 and the jsonify of lines 124 / 157
Respond(r) ==
    /\ reqs[r].pc = "identified"
    /\ reqs' = [reqs EXCEPT ![r] =
                  Finish(reqs[r], Response(200, success_response(reqs[r], datetime_now)))]
    /\ UNCHANGED <<environ, legacy_json, client, clock>>

\* the wall clock moves on
Tick ==
    /\ clock < MaxTicks
    /\ clock' = clock + 1
    /\ UNCHANGED <<environ, legacy_json, client, reqs>>

Next ==
    \/ \E r \in Requests : Home(r)
    \/ \E r \in Requests : HealthCheck(r)
    \/ \E r \in Requests : ApiAnalyzeGame(r)
    \/ \E r \in Requests : TestEndpoint(r)
    \/ \E r \in Requests : CompletionReturns(r)
    \/ \E r \in Requests : CompletionRaises(r)
    \/ \E r \in Requests : GenerateReportId(r)
    \/ \E r \in Requests : Respond(r)
    \/ Tick

Spec == Init /\ [][Next]_vars

(***************************************************************************)
(* Vocabulary of the properties.                                           *)
(***************************************************************************)
Started(r) == reqs[r].pc # "idle"
Done(r) == reqs[r].pc = "done"
OnRoute(r, route) == Started(r) /\ reqs[r].request.route = route
StatusOf(r) == reqs[r].response.status
BodyOf(r) == reqs[r].response.body
CallCount(r) == Len(reqs[r].calls)

\* the request carries a JSON document, declared as JSON
SendsDocument(r) ==
    /\ is_json(reqs[r].request.content_type)
    /\ "json" \in DOMAIN reqs[r].request.body
DocumentOf(r) == reqs[r].request.body.json

\* the document has no usable value for the field
Lacks(doc, field) ==
    \/ doc.t # "object"
    \/ field \notin DOMAIN doc.members
    \/ doc.members[field] = None
HasBothFields(doc) == ~Lacks(doc, "business_name") /\ ~Lacks(doc, "game_data")
FirstLacking(doc) == IF Lacks(doc, "business_name") THEN "business_name" ELSE "game_data"

SuccessKeys == {"success", "message", "report_id", "business_name", "analysis", "generated_at"}
ValidationMessages == {"Missing required field: " \o required_fields[i] : i \in 1..Len(required_fields)}

\* the handler answered with a validation error
Rejected(r) ==
    /\ Done(r)
    /\ StatusOf(r) = 400
    /\ "error" \in DOMAIN BodyOf(r)
    /\ BodyOf(r).error \in ValidationMessages

\* the completion call of the request raised
CallRaised(r) == Done(r) /\ CallCount(r) > 0 /\ reqs[r].exc # None

(***************************************************************************)
(* C1.  Every POST /api/analyze-game whose JSON document lacks             *)
(* business_name or game_data, or carries null for either -- documents     *)
(* that are not objects included -- is answered 400 with the error text    *)
(* 'Missing required field: <field>' naming the first such field, and no   *)
(* completion call is made.                                                *)
(***************************************************************************)
C1_MissingFieldIs400 ==
    \A r \in Requests :
        (/\ OnRoute(r, "/api/analyze-game")
         /\ SendsDocument(r)
         /\ DocumentOf(r) # None
         /\ ~HasBothFields(DocumentOf(r)))
        => /\ Done(r)
           /\ reqs[r].response =
                 Response(400, [error |-> "Missing required field: "
                                          \o FirstLacking(DocumentOf(r))])
           /\ CallCount(r) = 0

(***************************************************************************)
(* C2.  A POST /api/analyze-game with no body or a body that does not      *)
(* parse as JSON is always answered 400 {"error": "No JSON data provided"},*)
(* never 500, and reaches neither validation nor the completion client.    *)
(***************************************************************************)
C2_NoJsonIs400 ==
    \A r \in Requests :
        (OnRoute(r, "/api/analyze-game") /\ "bytes" \in DOMAIN reqs[r].request.body)
        => /\ Done(r)
           /\ reqs[r].response = Response(400, [error |-> "No JSON data provided"])
           /\ CallCount(r) = 0

(***************************************************************************)
(* C3.  With both fields present and a configured client, whenever the     *)
(* completion call raises an exception of any type, ValueError subtypes    *)
(* included, the answer is 500 with the exception's description, after     *)
(* exactly one call.                                                       *)
(***************************************************************************)
C3_UpstreamFailureIs500 ==
    \A r \in Requests :
        (OnRoute(r, "/api/analyze-game") /\ CallRaised(r))
        => /\ reqs[r].response = Response(500, [error |-> reqs[r].exc.msg])
           /\ CallCount(r) = 1

(***************************************************************************)
(* C7.  For every combination of the three credential variables, the       *)
(* readiness reported by GET / and GET /api/health agrees with the         *)
(* startup resolution: client_ready equals openai_configured, both are     *)
(* false when none of the three is set, and openai_key_set is true         *)
(* whenever a credential was resolved (client_ready implies                *)
(* openai_key_set).  The claim's converse, ready whenever a variable is    *)
(* set, is left out of the formula: it also presumes that the constructor  *)
(* of line 34 cannot raise.                                                *)
(***************************************************************************)
NoCredentialSet == \A n \in EnvNames : environ[n] = None

\* C7: the two endpoints agree with the client handle, report not ready when
\* no credential is set, and client_ready implies openai_key_set
C7_ReadinessAgrees ==
    \A r \in Requests :
        /\ (Done(r) /\ OnRoute(r, "/"))
           => LET check == BodyOf(r).environment_check IN
              /\ check.client_ready = (client # None)
              /\ NoCredentialSet => ~check.client_ready
              /\ check.client_ready => check.openai_key_set
        /\ (Done(r) /\ OnRoute(r, "/api/health"))
           => /\ BodyOf(r).environment.openai_configured = (client # None)
              /\ NoCredentialSet => ~BodyOf(r).environment.openai_configured

(***************************************************************************)
(* C4.  Degraded mode: when no credential was resolved at startup the      *)
(* client handle is None; with the handle None (no credential, or a        *)
(* constructor that raised), /api/health reports openai_configured false,  *)
(* and every POST /api/analyze-game that delivers both fields is answered  *)
(* 200 with success true and the fixed explanatory message as analysis,    *)
(* without an exception and without any completion call.                   *)
(***************************************************************************)
C4_DegradedMode ==
    /\ NoCredentialSet => client = None
    /\ client = None =>
         \A r \in Requests :
            /\ (Done(r) /\ OnRoute(r, "/api/health"))
               => BodyOf(r).environment.openai_configured = FALSE
            /\ (/\ OnRoute(r, "/api/analyze-game")
                /\ SendsDocument(r)
                /\ HasBothFields(DocumentOf(r)))
               => /\ reqs[r].pc \in {"analysed", "identified", "done"}
                  /\ reqs[r].analysis = PyStr(DegradedMessage)
                  /\ reqs[r].exc = None
                  /\ CallCount(r) = 0
                  /\ Done(r) => /\ StatusOf(r) = 200
                                /\ BodyOf(r).success = TRUE
                                /\ BodyOf(r).analysis = PyStr(DegradedMessage)

(***************************************************************************)
(* C5.  Every 200 response of /api/analyze-game or /api/test has exactly   *)
(* the keys success, message, report_id, business_name, analysis and       *)
(* generated_at, with success true, a report_id of 8 characters, the       *)
(* business_name of the data analysed, and as analysis the text the        *)
(* completion client returned (or the degraded message); every other       *)
(* response has an error key and no success key.                           *)
(***************************************************************************)
AnalysedName(r) ==
    IF reqs[r].request.route = "/api/test" THEN PyStr("Sample Game Idea")
    ELSE DocumentOf(r).members["business_name"]

\* C5: a 200 body has the six keys with their values, any other body has
\* error and no success
C5_ResponseShape ==
    \A r \in Requests :
        (Done(r) /\ (OnRoute(r, "/api/analyze-game") \/ OnRoute(r, "/api/test")))
        => IF StatusOf(r) = 200
           THEN /\ DOMAIN BodyOf(r) = SuccessKeys
                /\ BodyOf(r).success = TRUE
                /\ Len(BodyOf(r).report_id) = 8
                /\ BodyOf(r).business_name = AnalysedName(r)
                /\ BodyOf(r).analysis = reqs[r].analysis
                /\ IF CallCount(r) = 0
                   THEN reqs[r].analysis = PyStr(DegradedMessage)
                   ELSE reqs[r].analysis \in Replies
           ELSE /\ "error" \in DOMAIN BodyOf(r)
                /\ "success" \notin DOMAIN BodyOf(r)

C5_Witness ==
    /\ \E r \in Requests :
          /\ Done(r) /\ OnRoute(r, "/api/analyze-game") /\ StatusOf(r) = 200
          /\ CallCount(r) = 1
          /\ BodyOf(r).business_name = PyStr("Space Tactics")
    /\ \E r \in Requests :
          Done(r) /\ OnRoute(r, "/api/test") /\ StatusOf(r) # 200

(***************************************************************************)
(* C6.  POST /api/test, with no request body and whatever body is sent,    *)
(* always passes validation and succeeds with the response shape of        *)
(* /api/analyze-game, business_name 'Sample Game Idea' and the sample      *)
(* description forwarded to the completion client; it never returns 400.   *)
(* "Succeeds" is taken for the requests whose completion call did not      *)
(* raise: a raised call is an upstream failure, answered in the error      *)
(* shape of /api/analyze-game.  The formula states that the route passes   *)
(* validation, forwards the sample, answers 200 in that shape when         *)
(* nothing was raised, and in no case answers 400.                         *)
(***************************************************************************)
C6_TestNeverReturns400 ==
    \A r \in Requests :
        OnRoute(r, "/api/test")
        => /\ ~Rejected(r)
           /\ reqs[r].data = sample_data
           /\ IF client = None THEN CallCount(r) = 0
              ELSE reqs[r].calls = <<completion_request(PyStr(SampleDescription))>>
           /\ Done(r) =>
                /\ StatusOf(r) # 400
                /\ reqs[r].exc = None
                   => /\ StatusOf(r) = 200
                      /\ DOMAIN BodyOf(r) = SuccessKeys
                      /\ BodyOf(r).business_name = PyStr("Sample Game Idea")

(***************************************************************************)
(* C8.  Validation accepts a JSON object exactly when both keys are        *)
(* present with non-null values; nothing else about the values is          *)
(* checked.  An accepted request, empty strings included, is forwarded to  *)
(* the completion client and answered 200 once the analysis is there; a    *)
(* refused one is answered 400 naming the first field it lacks.            *)
(***************************************************************************)
C8_ValidationIsPresenceOnly ==
    \A r \in Requests :
        (/\ OnRoute(r, "/api/analyze-game")
         /\ SendsDocument(r)
         /\ DocumentOf(r).t = "object")
        => IF HasBothFields(DocumentOf(r))
           THEN /\ ~Rejected(r)
                /\ reqs[r].data = DocumentOf(r)
                /\ client # None =>
                     reqs[r].calls =
                        <<completion_request(DocumentOf(r).members["game_data"])>>
                /\ (Done(r) /\ reqs[r].exc = None)
                   => StatusOf(r) = 200 /\ BodyOf(r).success = TRUE
                /\ reqs[r].exc # None => CallRaised(r)
           ELSE /\ Rejected(r)
                /\ BodyOf(r).error = "Missing required field: "
                                     \o FirstLacking(DocumentOf(r))
                /\ CallCount(r) = 0

(***************************************************************************)
(* C9.  The steps of one request come in a fixed order: validation, the    *)
(* completion call, the report_id, the capture of generated_at.  So        *)
(* generated_at is the time at which the response is assembled, after the  *)
(* call has returned, and neither a report_id nor a timestamp exists for   *)
(* a request that failed validation or whose call raised.                  *)
(***************************************************************************)
HasTimestamp(rq) == "generated_at" \in DOMAIN rq.response.body

C9_StateOrder ==
    \A r \in Requests :
        /\ CallCount(r) > 0 => HasBothFields(reqs[r].data)
        /\ reqs[r].report_id # <<>>
           => /\ reqs[r].pc \in {"identified", "done"}
              /\ HasBothFields(reqs[r].data)
              /\ reqs[r].exc = None
              /\ IF client = None THEN reqs[r].analysis = PyStr(DegradedMessage)
                 ELSE CallCount(r) = 1 /\ reqs[r].analysis \in Replies
        /\ HasTimestamp(reqs[r])
           => /\ reqs[r].report_id # <<>>
              /\ BodyOf(r).report_id = reqs[r].report_id
        /\ (Rejected(r) \/ reqs[r].exc # None)
           => /\ reqs[r].report_id = <<>>
              /\ ~HasTimestamp(reqs[r])
              /\ "report_id" \notin DOMAIN BodyOf(r)

C9_StepOrder ==
    \A r \in Requests :
        /\ Len(reqs'[r].calls) > Len(reqs[r].calls)
           => reqs[r].pc = "idle" /\ HasBothFields(reqs'[r].data)
        /\ reqs'[r].analysis # reqs[r].analysis
           => reqs[r].pc \in {"idle", "calling"}
        /\ reqs'[r].report_id # reqs[r].report_id
           => reqs[r].pc = "analysed"
        /\ (HasTimestamp(reqs'[r]) /\ ~HasTimestamp(reqs[r]))
           => /\ reqs[r].pc = "identified"
              /\ reqs'[r].response.body.generated_at = strftime(datetime_now)

\* C9: the order holds in every state and at every step
C9_FixedOrder == [](C9_StateOrder) /\ [][C9_StepOrder]_vars

C9_Witness ==
    \E r \in Requests :
        /\ Done(r) /\ StatusOf(r) = 200 /\ CallCount(r) = 1
        /\ BodyOf(r).generated_at # strftime(reqs[r].arrived_at)

(***************************************************************************)
(* C10.  Handling requests, in any interleaving, changes no process-wide   *)
(* state: the client handle and the environment stay as they were at       *)
(* startup and a step touches the locals of one request only.  The only    *)
(* side effect is the completion call: exactly one for a valid request     *)
(* with a configured client, none for a request that fails validation,     *)
(* has no JSON body or runs in degraded mode.  Two requests with the same  *)
(* input and the same upstream outcome get the same answer.                *)
(***************************************************************************)
Analysable(r) ==
    \/ OnRoute(r, "/api/test")
    \/ /\ OnRoute(r, "/api/analyze-game")
       /\ SendsDocument(r)
       /\ HasBothFields(DocumentOf(r))

C10_Calls ==
    \A r \in Requests :
        CallCount(r) = IF Started(r) /\ Analysable(r) /\ client # None THEN 1 ELSE 0

C10_SameInSameOut ==
    \A r1, r2 \in Requests :
        (/\ Done(r1) /\ Done(r2)
         /\ reqs[r1].request.route \in {"/api/analyze-game", "/api/test"}
         /\ reqs[r1].request = reqs[r2].request
         /\ reqs[r1].analysis = reqs[r2].analysis
         /\ reqs[r1].exc = reqs[r2].exc)
        => /\ StatusOf(r1) = StatusOf(r2)
           /\ IF StatusOf(r1) = 200
              THEN \A k \in {"success", "message", "business_name", "analysis"} :
                      BodyOf(r1)[k] = BodyOf(r2)[k]
              ELSE BodyOf(r1) = BodyOf(r2)

C10_Frame ==
    /\ client' = client
    /\ environ' = environ
    /\ \A r1, r2 \in Requests :
          r1 # r2 => (reqs'[r1] = reqs[r1] \/ reqs'[r2] = reqs[r2])

\* C10, the part about states: the call counts and the equal answers
C10_RequestsIndependent == C10_Calls /\ C10_SameInSameOut

\* C10, the part about steps: the frame
C10_FrameUnchanged == [][C10_Frame]_vars

====
